---- MODULE Spec2Model ----
(***************************************************************************)
(* Model of typhonjs-github-inspect-orgs-transform: the TransformControl   *)
(* registry (src/transform/TransformControl.js), the category traversal    *)
(* engine (src/transform/transformCategories.js) and the transforms that   *)
(* drive it.  One render call of the engine is one step of the model.      *)
(*                                                                         *)
(* JavaScript strings that are built by concatenation are sequences of     *)
(* tokens; `undefined` and non-string arguments are the sentinels NoValue  *)
(* and NonString.                                                          *)
(***************************************************************************)
EXTENDS Integers, Sequences, FiniteSets, TLC

VARIABLES
   ctl,              \* "new": no TransformControl instance yet; "ready": constructed
   _transforms,      \* TransformControl._transforms: type name -> transform function
   _transformType,   \* TransformControl._transformType
   pc,               \* "idle"; "traversing" while s_DEPTH_TRAVERSAL is on the call stack;
                     \* "returned" when an operation has returned or thrown to its caller
   data,             \* the data object of the transform call in progress (or the last one)
   options,          \* the options object of that call
   render,           \* the render callback handed to transformCategories
   stack,            \* call stack of s_DEPTH_TRAVERSAL activations, innermost last
   log,              \* history: the render calls of the current traversal, in call order
   ret,              \* outcome of the last operation that returned or threw
   hist,             \* history: the transforms option of the constructor, one earlier transform call,
                     \* and whether the options object of the current call held traversal state
   query             \* the GitHubInspectOrgsTransform query in progress and its promise

vars == <<ctl, _transforms, _transformType, pc, data, options, render, stack, log, ret, hist, query>>

---------------------------------------------------------------------------
(* Bounds *)

MaxEntries == 4      \* entries in one data tree, over all depths
MaxChain == 3        \* categories in one chain
ControlEntries == 2  \* entries in the data trees handed to TransformControl.transform
RenderEntries == 3   \* entries in one data tree handed to the built-in renderers
RenderChain == 2     \* categories in one chain handed to the built-in renderers
DescEntries == 2     \* entries in one data tree whose descriptions vary

---------------------------------------------------------------------------
(* JavaScript values *)

NoValue == "<undefined>"
NonString == "<number>"
NotAFunction == "<not a function>"

IsString(x) == x \notin {NoValue, NonString}

Undefined == [kind |-> "undefined", items |-> <<>>]
Null == [kind |-> "null", items |-> <<>>]
PlainObject == [kind |-> "object", items |-> <<>>]
Number == [kind |-> "number", items |-> <<>>]
Arr(s) == [kind |-> "array", items |-> s]

\* An entry of a category array: `field` is the one category field it carries; `rate` tells
\* whether it carries the `core` and `search` objects of a rate limit entry.
Entry(i, f, v) ==
   [name |-> "n" \o ToString(i), url |-> "u" \o ToString(i), description |-> "d" \o ToString(i),
    field |-> f, value |-> v, rate |-> FALSE]

\* An entry as GitHubInspectOrgs normalizes a rate limit: entry.core and entry.search are objects
RateEntry(i, f, v) == [Entry(i, f, v) EXCEPT !.rate = TRUE]

\* entries[cntr] of a string primitive is a one-character string: every property read gives undefined.
Character == [name |-> NoValue, url |-> NoValue, description |-> NoValue,
              field |-> NoValue, value |-> Undefined, rate |-> FALSE]
Str(n) == [kind |-> "string", items |-> [i \in 1..n |-> Character]]

\* A reference to an array of shared entry objects: `items` holds the places of the objects in
\* Heap.  Data that is not a tree (an entry reachable from itself) is built from references.
Ref(ids) == [kind |-> "ref", items |-> ids]

\* Three entry objects that refer to each other through their `orgs` field: the first holds itself,
\* the second holds the third, and the third holds the second (its parent) and the first.
Heap ==
   <<Entry(1, "orgs", Ref(<<1>>)), Entry(2, "orgs", Ref(<<3>>)), Entry(3, "orgs", Ref(<<2, 1>>))>>

\* the array a property value denotes
Deref(v) == IF v.kind = "ref" THEN Arr([i \in DOMAIN v.items |-> Heap[v.items[i]]]) ELSE v

\* node[prop]
Get(node, prop) == IF prop # NoValue /\ prop = node.field THEN Deref(node.value) ELSE Undefined

IsArray(v) == v.kind = "array"

\* v.length, -1 standing for undefined (every comparison `cntr < undefined` is false)
Length(v) == IF v.kind \in {"array", "string"} THEN Len(v.items) ELSE -1

---------------------------------------------------------------------------
(* Input data *)

Cats == <<"orgs", "repos", "teams", "members", "users">>
NumLevels == MaxChain
LevelCat(l) == IF l <= NumLevels THEN Cats[l] ELSE NoValue

RECURSIVE ForestsExact(_, _)
RECURSIVE KidValues(_, _)
\* the values of the next-category field of an entry at level l that has m descendants
KidValues(l, m) ==
   IF m = 0
   THEN IF l < NumLevels THEN {Undefined, PlainObject, Arr(<<>>)} ELSE {Undefined}
   ELSE IF l < NumLevels THEN {Arr(f) : f \in ForestsExact(l + 1, m)} ELSE {}

\* the arrays of level l that hold n entries in all, descendants included
ForestsExact(l, n) ==
   IF n = 0 THEN {<<>>}
   ELSE UNION { { Append(rest, Entry(Len(rest) + 1, LevelCat(l + 1), v)) :
                     rest \in ForestsExact(l, n - k), v \in KidValues(l, k - 1) } : k \in 1..n }

Forests(n) == UNION { ForestsExact(1, k) : k \in 0..n }

\* every order-preserving choice of level categories
Chains ==
   { c \in UNION { [1..n -> {Cats[i] : i \in 1..NumLevels}] : n \in 1..MaxChain } :
        \A i, j \in DOMAIN c : i < j =>
           \E a, b \in 1..NumLevels : a < b /\ Cats[a] = c[i] /\ Cats[b] = c[j] }

RECURSIVE Join(_)
\* the colon-delimited `categories` string of a chain
Join(c) == IF Len(c) = 1 THEN <<c[1]>> ELSE <<c[1], ":">> \o Join(Tail(c))

RootValues(n) == {Arr(f) : f \in Forests(n)} \cup {Undefined, Null, PlainObject, Number, Str(2)}

DataOf(c, v) == [categories |-> Join(c), field |-> Cats[1], value |-> v]

DataSet == { DataOf(c, v) : c \in Chains, v \in RootValues(MaxEntries) }
ControlChain == [i \in 1..(IF MaxChain < 2 THEN MaxChain ELSE 2) |-> Cats[i]]
ControlData == { DataOf(ControlChain, v) : v \in RootValues(ControlEntries) }

NoData == DataOf(<<Cats[1]>>, Undefined)

\* data.categories of a data object without that property
NoCategories == <<NoValue>>

\* the data handed to transformJSON: every chain, every root, and the same without `categories`
JsonData == DataSet \cup { [d EXCEPT !.categories = NoCategories] : d \in DataSet }

\* the data of the calls that are compared with each other: a leaf, an entry with a child, and
\* a root without the first category
HistoryData ==
   { DataOf(ControlChain, Arr(<<Entry(1, LevelCat(2), v)>>)) :
        v \in {Undefined, Arr(<<Entry(1, LevelCat(3), Undefined)>>)} }
   \cup {DataOf(ControlChain, Undefined)}

\* The category names of the data handed to the built-in renderers: a category with a
\* description, a name category, 'ratelimit', 'stats', and one that no renderer has a case for.
RenderCats == {"orgs", "members", "ratelimit", "stats", "gists"}
RenderChains == UNION { [1..n -> RenderCats] : n \in 1..RenderChain }

\* the entry number i of level l of chain c, with value v under the next category
RenderEntry(c, l, i, v) ==
   LET next == IF l < Len(c) THEN c[l + 1] ELSE NoValue
   IN IF c[l] = "ratelimit" THEN RateEntry(i, next, v) ELSE Entry(i, next, v)

RECURSIVE RenderForests(_, _, _)
RECURSIVE RenderKids(_, _, _)
RenderKids(c, l, m) ==
   IF m = 0
   THEN IF l < Len(c) THEN {Undefined, Arr(<<>>)} ELSE {Undefined}
   ELSE IF l < Len(c) THEN {Arr(f) : f \in RenderForests(c, l + 1, m)} ELSE {}

\* the arrays of level l of chain c that hold n entries in all, descendants included
RenderForests(c, l, n) ==
   IF n = 0 THEN {<<>>}
   ELSE UNION { { Append(rest, RenderEntry(c, l, Len(rest) + 1, v)) :
                     rest \in RenderForests(c, l, n - k), v \in RenderKids(c, l, k - 1) } : k \in 1..n }

RenderRoots(c) == {Undefined} \cup {Arr(f) : f \in UNION {RenderForests(c, 1, k) : k \in 0..RenderEntries}}

RenderData ==
   UNION { { [categories |-> Join(c), field |-> c[1], value |-> v] : v \in RenderRoots(c) } :
              c \in RenderChains }

\* The data of the calls that are compared for their descriptions: chains of a category with a
\* description, one with an optional description and 'stats'; every entry has an empty or a
\* non-empty description.
DescCats == {"orgs", "teams", "stats"}
DescChains == UNION { [1..n -> DescCats] : n \in 1..2 }
DescValues == {"", "about"}

RECURSIVE DescForests(_, _, _)
DescKids(c, l, m) ==
   IF m = 0 THEN {Undefined}
   ELSE IF l < Len(c) THEN {Arr(f) : f \in DescForests(c, l + 1, m)} ELSE {}

\* the arrays of level l of chain c that hold n entries in all, descendants included
DescForests(c, l, n) ==
   IF n = 0 THEN {<<>>}
   ELSE UNION { { Append(rest, [Entry(Len(rest) + 1, (IF l < Len(c) THEN c[l + 1] ELSE NoValue), v)
                                   EXCEPT !.description = x]) :
                     rest \in DescForests(c, l, n - k), v \in DescKids(c, l, k - 1), x \in DescValues } :
                  k \in 1..n }

DescRoots(c) == {Undefined} \cup {Arr(f) : f \in UNION {DescForests(c, 1, k) : k \in 0..DescEntries}}

DescData ==
   UNION { { [categories |-> Join(c), field |-> c[1], value |-> v] : v \in DescRoots(c) } :
              c \in DescChains }

\* Data that is not a tree: the chain repeats one category, and the root array holds one or two
\* of the entry objects of Heap.
CyclicChains == { [i \in 1..n |-> "orgs"] : n \in 1..MaxChain }
CyclicRoots == { Ref(ids) : ids \in UNION { [1..n -> DOMAIN Heap] : n \in 1..2 } }
CyclicData == { [categories |-> Join(c), field |-> "orgs", value |-> v] : c \in CyclicChains, v \in CyclicRoots }

\* the data of the calls whose termination is checked: cyclic data and trees
TerminationData == CyclicData \cup { DataOf(c, v) : c \in Chains, v \in RootValues(ControlEntries) }

\* the options hash of a transform call
Options(t, d) == [transformType |-> t, description |-> d,
                  _transformData |-> Undefined, _maxDepthLength |-> -1]

OptionsSet == { Options(t, d) : t \in {NoValue}, d \in {FALSE} }

HistoryTypes == {NoValue, "html", "json", "custom", "bogus"}
HistoryOptionsSet == { Options(t, d) : t \in HistoryTypes, d \in BOOLEAN }

ControlOptionsSet ==
   { Options(t, FALSE) : t \in {NoValue, NonString, "html", "json", "custom", "bogus", "toString"} }

---------------------------------------------------------------------------
(* transformJSON *)

RECURSIVE JoinMembers(_)
\* the members of an object or the elements of an array, separated by commas; a member whose
\* value is undefined is left out
JoinMembers(ms) ==
   IF ms = <<>> THEN <<>>
   ELSE IF Head(ms) = <<>> THEN JoinMembers(Tail(ms))
   ELSE LET rest == JoinMembers(Tail(ms))
        IN Head(ms) \o (IF rest = <<>> THEN <<>> ELSE <<",">> \o rest)

RECURSIVE stringifyEntry(_)

\* a value that is serialized as null where JSON.stringify omits the member
stringifyValue_undefinedAsNull(key, v) ==
   CASE v.kind \in {"undefined", "null"} -> <<key, ":", "null">>
     [] v.kind = "object" -> <<key, ":", "{}">>
     [] v.kind = "number" -> <<key, ":", "0">>
     [] v.kind = "string" -> <<key, ":", "\"">> \o [i \in 1..Len(v.items) |-> "c"] \o <<"\"">>
     [] OTHER -> <<key, ":", "[">> \o JoinMembers([i \in DOMAIN v.items |-> stringifyEntry(v.items[i])]) \o <<"]">>

\* the "key":value member of a category field; an undefined value is omitted by JSON.stringify
stringifyValue(key, v) ==
   CASE v.kind = "undefined" -> <<>>
     [] v.kind = "null" -> <<key, ":", "null">>
     [] v.kind = "object" -> <<key, ":", "{}">>
     [] v.kind = "number" -> <<key, ":", "0">>
     [] v.kind = "string" -> <<key, ":", "\"">> \o [i \in 1..Len(v.items) |-> "c"] \o <<"\"">>
     [] OTHER -> <<key, ":", "[">> \o JoinMembers([i \in DOMAIN v.items |-> stringifyEntry(v.items[i])]) \o <<"]">>

\* JSON.stringify of one element of a category array: an entry object, or a one-character string
stringifyEntry(e) ==
   IF e = Character THEN <<"\"", "c", "\"">>
   ELSE <<"{">>
           \o JoinMembers(<< <<"name", ":", e.name>>, <<"url", ":", e.url>>,
                             <<"description", ":", e.description>>,
                             IF e.rate THEN <<"core", ":", "{limit}", ",", "search", ":", "{limit}">> ELSE <<>>,
                             stringifyValue(e.field, e.value) >>)
           \o <<"}">>

\* JSON.stringify(data)
transformJSON(d) ==
   <<"{">>
      \o JoinMembers(<< IF d.categories = NoCategories THEN <<>>
                        ELSE <<"categories", ":", "\"">> \o d.categories \o <<"\"">>,
                        stringifyValue(d.field, d.value) >>)
      \o <<"}">>

---------------------------------------------------------------------------
(* The render callbacks. *)

\* {} as pushed by transformCategories: no property assigned yet
EmptyObject == [set |-> FALSE, firstEntry |-> FALSE, lastEntry |-> FALSE, maxDepth |-> FALSE, pass |-> -1]

\* options._transformData[depth]
StateAt(o, depth) == o._transformData.items[depth + 1]

\* `${x}` in a template literal
Tpl(x) == IF x = NoValue THEN "undefined" ELSE x
Truthy(x) == x \notin {NoValue, ""}

indent(depth) == [i \in 1..depth |-> "   "]

NameCats == {"collaborators", "contributors", "members", "owners", "users"}

NewLines(extra) == IF extra THEN <<"\n", "\n">> ELSE <<"\n">>

\* `Core: limit: ${entry.core.limit}, remaining: ${entry.core.remaining}, reset: ${new Date(...)}`
RateCore == "Core: limit, remaining, reset"
RateSearch == "Search: limit, remaining, reset"

\* the three backquotes that open and close a Markdown code span
CodeFence == "<fence>"

\* a text renderer that separates every array from what follows by a blank line, at depth 0 too
s_TRANSFORM_text_blankAfterLast(category, entry, depth, o) ==
   IF StateAt(o, depth).pass > 0 THEN <<>>
   ELSE indent(depth) \o <<Tpl(entry.name)>>
           \o NewLines(StateAt(o, depth).lastEntry /\ StateAt(o, depth).maxDepth)

s_TRANSFORM_text(category, entry, depth, o) ==
   IF StateAt(o, depth).pass > 0 THEN <<>>
   ELSE
      LET lastEntry == StateAt(o, depth).lastEntry
          maxDepth == StateAt(o, depth).maxDepth
          desc == o.description
          prefix == indent(depth)
      IN CASE category \in NameCats ->
                prefix \o <<Tpl(entry.name)>>
                   \o (IF desc /\ entry.url # "" THEN <<" - ", Tpl(entry.url)>> ELSE <<>>)
                   \o NewLines(depth > 0 /\ lastEntry /\ maxDepth)
           [] category = "orgs" ->
                prefix \o <<Tpl(entry.name)>>
                   \o (IF desc /\ entry.description # "" THEN <<" - ", Tpl(entry.description)>> ELSE <<>>)
                   \o NewLines(\/ depth = 0 /\ o._maxDepthLength > 1 /\ maxDepth
                               \/ depth > 0 /\ lastEntry /\ maxDepth)
           [] category \in {"repos", "teams"} ->
                prefix \o <<Tpl(entry.name)>>
                   \o (IF desc /\ Truthy(entry.description) THEN <<" - ", entry.description>> ELSE <<>>)
                   \o NewLines(depth > 0 /\ o._maxDepthLength > 0 /\ lastEntry /\ maxDepth)
           [] category = "ratelimit" ->
                prefix \o <<RateCore, "\n">> \o indent(depth) \o <<RateSearch>>
                   \o NewLines(depth > 0 /\ lastEntry /\ maxDepth)
           [] category = "stats" ->
                prefix \o stringifyEntry(entry)
                   \o NewLines(depth > 0 /\ o._maxDepthLength > 0 /\ maxDepth)
           [] OTHER -> prefix

\* a Markdown renderer that ends every entry with a blank line on the second pass
s_TRANSFORM_markdown_closing(category, entry, depth, o) ==
   IF StateAt(o, depth).pass > 0 THEN <<"\n">> ELSE <<"- ", Tpl(entry.name), "\n">>

s_TRANSFORM_markdown(category, entry, depth, o) ==
   IF StateAt(o, depth).pass > 0 THEN <<>>
   ELSE
      LET lastEntry == StateAt(o, depth).lastEntry
          maxDepth == StateAt(o, depth).maxDepth
          maxDepthLength == o._maxDepthLength
          desc == o.description
          prefix0 == CASE depth = 1 -> indent(1) \o <<"- ">>
                       [] depth = 2 -> indent(2) \o <<"* ">>
                       [] OTHER -> <<>>
          tail0 == IF depth \in {1, 2} THEN NewLines(lastEntry /\ maxDepth) ELSE <<"\n", "\n">>
          single == depth = 0 /\ maxDepthLength = 1
          link == IF entry.url # "" THEN <<"[", Tpl(entry.name), "](", Tpl(entry.url), ")">>
                  ELSE <<Tpl(entry.name)>>
          description == IF desc /\ Truthy(entry.description) THEN <<" - ", entry.description>> ELSE <<>>
      IN CASE category \in NameCats ->
                (IF single THEN <<"- ">> ELSE prefix0) \o link \o (IF single THEN <<"\n">> ELSE tail0)
           [] category \in {"orgs", "repos"} -> prefix0 \o link \o description \o tail0
           [] category = "teams" -> prefix0 \o <<Tpl(entry.name)>> \o description \o tail0
           [] category = "ratelimit" ->
                prefix0 \o <<RateCore, "\n">> \o prefix0 \o <<RateSearch>> \o tail0
           [] category = "stats" -> prefix0 \o <<CodeFence>> \o stringifyEntry(entry) \o <<CodeFence>> \o tail0
           [] OTHER -> <<>>

\* a first pass that appends the description whatever options.description is
s_TRANSFORM_FIRST_PASS_describing(category, entry, depth, o) ==
   indent(depth + 1) \o <<"<li>", Tpl(entry.name)>>
      \o (IF Truthy(entry.description) THEN <<" - ", entry.description>> ELSE <<>>)
      \o (IF StateAt(o, depth).maxDepth THEN <<"</li>", "\n">> ELSE <<"\n">>)

s_TRANSFORM_FIRST_PASS(category, entry, depth, o) ==
   LET firstEntry == StateAt(o, depth).firstEntry
       maxDepth == StateAt(o, depth).maxDepth
       maxDepthLength == o._maxDepthLength
       desc == o.description
       prefix == IF firstEntry
                 THEN indent(depth) \o <<"<ul id=\"" \o category \o "\">", "\n">> \o indent(depth + 1) \o <<"<li>">>
                 ELSE IF depth = 0 /\ depth < maxDepthLength - 1
                      THEN indent(depth + 1) \o <<"<li class=\"li-depth-0\">">>
                      ELSE indent(depth + 1) \o <<"<li>">>
       tail == IF maxDepth THEN <<"</li>", "\n">> ELSE <<"\n">>
       link == IF entry.url # ""
               THEN <<"<a href=\"" \o Tpl(entry.url) \o "\" target=\"_blank\">", Tpl(entry.name), "</a>">>
               ELSE <<Tpl(entry.name)>>
       description == IF desc /\ Truthy(entry.description) THEN <<" - ", entry.description>> ELSE <<>>
   IN CASE category \in NameCats -> prefix \o link \o tail
        [] category \in {"orgs", "repos"} -> prefix \o link \o description \o tail
        [] category = "teams" -> prefix \o <<Tpl(entry.name)>> \o description \o tail
        [] category = "ratelimit" ->
             prefix \o <<RateCore>> \o tail \o indent(depth + 1) \o <<"<li>", RateSearch>> \o tail
        [] category = "stats" -> prefix \o <<"<pre>">> \o stringifyEntry(entry) \o <<"</pre>">> \o tail
        [] OTHER -> prefix

\* a second pass that closes the list on the last entry only when that entry is a leaf
s_TRANSFORM_SECOND_PASS_leafOnly(category, entry, depth, o) ==
   LET lastEntry == StateAt(o, depth).lastEntry
       maxDepth == StateAt(o, depth).maxDepth
   IN IF ~maxDepth THEN indent(depth + 1) \o <<"</li>", "\n">>
      ELSE IF lastEntry THEN indent(depth) \o <<"</ul>", "\n">> ELSE <<>>

s_TRANSFORM_SECOND_PASS(category, entry, depth, o) ==
   LET lastEntry == StateAt(o, depth).lastEntry
       maxDepth == StateAt(o, depth).maxDepth
   IN (IF ~maxDepth THEN indent(depth + 1) \o <<"</li>", "\n">> ELSE <<>>)
         \o (IF lastEntry THEN indent(depth) \o <<"</ul>", "\n">> ELSE <<>>)

s_TRANSFORM_html(category, entry, depth, o) ==
   CASE StateAt(o, depth).pass = 0 -> s_TRANSFORM_FIRST_PASS(category, entry, depth, o)
     [] StateAt(o, depth).pass = 1 -> s_TRANSFORM_SECOND_PASS(category, entry, depth, o)
     [] OTHER -> <<>>

\* a render callback supplied by the user of transformCategories: one fragment per call
userRender(category, entry, depth, o) ==
   <<category \o "/" \o Tpl(entry.name) \o "/" \o ToString(StateAt(o, depth).pass)>>

\* transformFunction(category, entry, depth, options)
transformFunction(r, category, entry, depth, o) ==
   CASE r = "html" -> s_TRANSFORM_html(category, entry, depth, o)
     [] r = "markdown" -> s_TRANSFORM_markdown(category, entry, depth, o)
     [] r = "text" -> s_TRANSFORM_text(category, entry, depth, o)
     [] OTHER -> userRender(category, entry, depth, o)

\* a renderer that stores the default of its `desc` in the options
renderEffect_setsDescription(r, o) == [o EXCEPT !.description = TRUE]

\* the options object after a render call: the renderers read options.description,
\* options._maxDepthLength and options._transformData[depth] and assign nothing
renderEffect(r, o) == o

\* whether the callback can throw whatever it is called with: the user's code
MayThrow(r) == r = "user"

\* the outcomes of a render call: a user's callback may throw; a built-in renderer throws a
\* TypeError on the first pass when it reads entry.core.limit of an entry without `core`
renderThrows(r, category, entry, depth, o) ==
   IF MayThrow(r) THEN BOOLEAN
   ELSE {StateAt(o, depth).pass = 0 /\ category = "ratelimit" /\ ~entry.rate}

---------------------------------------------------------------------------
(* TransformControl *)

BuiltinTransforms ==
   [n \in {"html", "json", "markdown", "text"} |->
      CASE n = "html" -> "transformHTML"
        [] n = "json" -> "transformJSON"
        [] n = "markdown" -> "transformMarkdown"
        [] OTHER -> "transformText"]

\* what the object literal _transforms inherits from Object.prototype
ObjectPrototype == [n \in {"toString"} |-> "Object.prototype.toString"]

NoTransforms == [n \in {} |-> NoValue]

\* this._transforms[name]; NoValue when typeof this._transforms[name] === 'undefined'
Lookup(tr, name) ==
   IF name \in DOMAIN tr THEN tr[name]
   ELSE IF name \in DOMAIN ObjectPrototype THEN ObjectPrototype[name]
   ELSE NoValue

\* a merge that keeps a transform that is already registered
AddTransforms_keepFirst(tr, user) ==
   [n \in DOMAIN tr \cup DOMAIN user |-> IF n \in DOMAIN tr THEN tr[n] ELSE user[n]]

\* Object.assign-like merge done by the constructor's for..in loop
AddTransforms(tr, user) ==
   [n \in DOMAIN tr \cup DOMAIN user |-> IF n \in DOMAIN user THEN user[n] ELSE tr[n]]

\* the render callback a traversing transform hands to transformCategories
RenderOf(fn) ==
   CASE fn = "transformHTML" -> "html"
     [] fn = "transformMarkdown" -> "markdown"
     [] fn = "transformText" -> "text"
     [] OTHER -> "user"

TraversingTransforms == {"transformHTML", "transformMarkdown", "transformText", "userTransform"}

Ret(op, arg, before, type, invoked, threw, error, value) ==
   [op |-> op, arg |-> arg, before |-> before, type |-> type, invoked |-> invoked,
    threw |-> threw, error |-> error, value |-> value]

\* the options of the constructor
CtorTypes == {NoValue, NonString, "html", "custom", "bogus", "toString"}
CtorTransforms ==
   { NoTransforms,
     [n \in {"custom"} |-> "userTransform"],
     [n \in {"text"} |-> "userTransform"],
     [n \in {"custom"} |-> NotAFunction] }

TypeArgs == {"html", "json", "markdown", "text", "custom", "bogus", "toString", NonString}

\* a transform that ignores options.transformType
ResolveType_activeOnly(optType, activeType) == activeType

\* the transform type a call resolves to (TransformControl.transform, line 138)
ResolveType(optType, activeType) == IF IsString(optType) THEN optType ELSE activeType

\* the validation of setTransformType (lines 94-102): "" when it passes, else the error thrown
SetTypeError(tr, activeType, arg) ==
   IF ~IsString(activeType) THEN "TypeError"
   ELSE IF Lookup(tr, activeType) = NoValue THEN "Error"
   ELSE ""

\* the validation of transform (lines 133-143)
TransformError(tr, activeType, optType) ==
   IF optType # NoValue /\ ~IsString(optType) THEN "TypeError"
   ELSE IF Lookup(tr, ResolveType(optType, activeType)) = NoValue THEN "Error"
   ELSE ""

\* the validation of the constructor (lines 52-74)
CtorError(type, user) ==
   IF \E n \in DOMAIN user : user[n] = NotAFunction THEN "TypeError"
   ELSE IF Lookup(AddTransforms(BuiltinTransforms, user), type) = NoValue THEN "Error"
   ELSE ""

\* the default of the constructor (line 49)
CtorType(optType) == IF IsString(optType) THEN optType ELSE "text"

---------------------------------------------------------------------------
(* transformCategories and s_DEPTH_TRAVERSAL *)

\* data.categories.split(':')
Split(str) == SelectSeq(str, LAMBDA t : t # ":")

\* categories[depth]; undefined beyond the end of the array
categoryOf(categories, depth) == IF depth + 1 <= Len(categories) THEN categories[depth + 1] ELSE NoValue

\* a traversal that goes on with the first category after the last one
nextCategoryOf_wrap(categories, depth) == categories[((depth + 1) % Len(categories)) + 1]

\* categories.length > depth ? categories[depth + 1] : undefined
nextCategoryOf(categories, depth) ==
   IF Len(categories) > depth /\ depth + 2 <= Len(categories) THEN categories[depth + 2] ELSE NoValue

\* a traversal that forgets the length test and descends into empty arrays
maxDepthOf_ignoreEmpty(nextCategory, entry) ==
   ~(nextCategory # NoValue /\ IsArray(Get(entry, nextCategory)))

\* !(nextCategory && Array.isArray(entry[nextCategory]) && entry[nextCategory].length > 0)
maxDepthOf(nextCategory, entry) ==
   ~(nextCategory # NoValue /\ IsArray(Get(entry, nextCategory)) /\ Length(Get(entry, nextCategory)) > 0)

\* a traversal that flags every entry as the first of its array
firstEntryOf_always(cntr) == TRUE

\* cntr === 0
firstEntryOf(cntr) == cntr = 0

\* an off-by-one last index
lastEntryOf_offByOne(cntr, entries) == cntr = Length(entries)

lastEntryOf(cntr, entries) == cntr = Length(entries) - 1

\* a loop that stops one entry early
InLoop_skipLast(cntr, entries) == cntr < Length(entries) - 1

\* cntr < entries.length
InLoop(cntr, entries) == cntr < Length(entries)

\* where the loop body goes after the first render call (line 61)
AfterFirstPass(maxDepth) == IF ~maxDepth THEN "recurse" ELSE "close"

\* an accumulator that prepends
Concat_prepend(resultString, fragment) == fragment \o resultString

\* resultString += fragment
Concat(resultString, fragment) == resultString \o fragment

\* a traversal whose accumulator outlives the call: it starts from the last result returned
Frame_carry(node, depth) ==
   [node |-> node, depth |-> depth, cntr |-> 0, maxDepth |-> FALSE, resultString |-> ret.value, at |-> "loop"]

\* one activation of s_DEPTH_TRAVERSAL
Frame(node, depth) ==
   [node |-> node, depth |-> depth, cntr |-> 0, maxDepth |-> FALSE, resultString |-> <<>>, at |-> "loop"]

Top == stack[Len(stack)]
Categories == Split(data.categories)
Entries == Get(Top.node, categoryOf(Categories, Top.depth))
Current == Entries.items[Top.cntr + 1]

\* the position of the current entry in the tree: the 1-based index chosen at every depth
Path == [k \in 1..Len(stack) |-> stack[k].cntr + 1]

SetTop(f) == [stack EXCEPT ![Len(stack)] = f]

\* a traversal that keeps one state record for all depths
SetState_shared(o, depth, st) ==
   [o EXCEPT !._transformData = Arr([i \in DOMAIN o._transformData.items |-> st])]

\* options._transformData[depth].<flag> = ... : the record of this depth only
SetState(o, depth, st) ==
   [o EXCEPT !._transformData = Arr([o._transformData.items EXCEPT ![depth + 1] = st])]

\* what the callback is called with and what it does
CallRecord(o, threw, returned) ==
   [category |-> categoryOf(Categories, Top.depth), path |-> Path, depth |-> Top.depth,
    pass |-> StateAt(o, Top.depth).pass, firstEntry |-> StateAt(o, Top.depth).firstEntry,
    lastEntry |-> StateAt(o, Top.depth).lastEntry, maxDepth |-> StateAt(o, Top.depth).maxDepth,
    length |-> o._maxDepthLength, threw |-> threw, returned |-> returned]

UserException == "exception thrown by the render callback"

\* what a throwing render call throws
renderError(r) == IF MayThrow(r) THEN UserException ELSE "TypeError"

\* a traversal that catches the exception and throws another one
Propagate_wrapped(error) ==
   /\ stack' = <<>>
   /\ pc' = "returned"
   /\ ret' = [ret EXCEPT !.threw = TRUE, !.error = "Error"]

\* an exception leaves s_DEPTH_TRAVERSAL, transformCategories and TransformControl.transform uncaught
Propagate(error) ==
   /\ stack' = <<>>
   /\ pc' = "returned"
   /\ ret' = [ret EXCEPT !.threw = TRUE, !.error = error]

\* an allocation that pushes one record too many
NewTransformData_extra(categories) == Arr([i \in 1..(Len(categories) + 1) |-> EmptyObject])

\* lines 16-19: options._transformData = [] and one push({}) per category
NewTransformData(categories) == Arr([i \in 1..Len(categories) |-> EmptyObject])

\* a return that leaves the traversal state in the options
ClearState_keep(o) == o

\* lines 23-24: options._transformData = undefined; options._maxDepthLength = undefined
ClearState(o) == [o EXCEPT !._transformData = Undefined, !._maxDepthLength = -1]

\* a set-up that allocates the per-depth state only when the options hold none
transformCategories_keepState(d, r, o) ==
   /\ data' = d
   /\ render' = r
   /\ options' = IF IsArray(o._transformData) THEN o
                 ELSE [o EXCEPT !._maxDepthLength = Len(Split(d.categories)),
                                !._transformData = NewTransformData(Split(d.categories))]
   /\ stack' = <<Frame(d, 0)>>
   /\ log' = <<>>
   /\ pc' = "traversing"

\* transformCategories, lines 13-21: set up options and enter s_DEPTH_TRAVERSAL at depth 0
transformCategories(d, r, o) ==
   /\ data' = d
   /\ render' = r
   /\ options' = [o EXCEPT !._maxDepthLength = Len(Split(d.categories)),
                           !._transformData = NewTransformData(Split(d.categories))]
   /\ stack' = <<Frame(d, 0)>>
   /\ log' = <<>>
   /\ pc' = "traversing"

\* line 49 with entries undefined or null: reading entries.length throws a TypeError
EntriesLengthThrows ==
   /\ pc = "traversing" /\ Top.at = "loop"
   /\ Entries.kind \in {"undefined", "null"}
   /\ Propagate("TypeError")
   /\ UNCHANGED <<ctl, _transforms, _transformType, data, options, render, log, hist, query>>

\* lines 51-61: flags of this depth, first render call
FirstPass ==
   /\ pc = "traversing" /\ Top.at = "loop"
   /\ Entries.kind \notin {"undefined", "null"}
   /\ InLoop(Top.cntr, Entries)
   /\ LET maxDepth == maxDepthOf(nextCategoryOf(Categories, Top.depth), Current)
          o1 == SetState(options, Top.depth,
                         [set |-> TRUE, firstEntry |-> firstEntryOf(Top.cntr),
                          lastEntry |-> lastEntryOf(Top.cntr, Entries), maxDepth |-> maxDepth, pass |-> 0])
          fragment == transformFunction(render, categoryOf(Categories, Top.depth), Current, Top.depth, o1)
      IN /\ options' = renderEffect(render, o1)
         /\ \E throws \in renderThrows(render, categoryOf(Categories, Top.depth), Current, Top.depth, o1) :
               IF throws
               THEN /\ log' = Append(log, CallRecord(o1, TRUE, <<>>))
                    /\ Propagate(renderError(render))
               ELSE /\ log' = Append(log, CallRecord(o1, FALSE, fragment))
                    /\ stack' = SetTop([Top EXCEPT !.maxDepth = maxDepth,
                                                   !.resultString = Concat(Top.resultString, fragment),
                                                   !.at = AfterFirstPass(maxDepth)])
                    /\ UNCHANGED <<pc, ret>>
   /\ UNCHANGED <<ctl, _transforms, _transformType, data, render, hist, query>>

\* line 63: the recursive call for the current entry
Recurse ==
   /\ pc = "traversing" /\ Top.at = "recurse"
   /\ stack' = Append(SetTop([Top EXCEPT !.at = "called"]), Frame(Current, Top.depth + 1))
   /\ UNCHANGED <<ctl, _transforms, _transformType, pc, data, options, render, log, ret, hist, query>>

\* lines 68-70: second render call, then cntr++
SecondPass ==
   /\ pc = "traversing" /\ Top.at = "close"
   /\ LET o1 == SetState(options, Top.depth, [StateAt(options, Top.depth) EXCEPT !.pass = 1])
          fragment == transformFunction(render, categoryOf(Categories, Top.depth), Current, Top.depth, o1)
      IN /\ options' = renderEffect(render, o1)
         /\ \E throws \in renderThrows(render, categoryOf(Categories, Top.depth), Current, Top.depth, o1) :
               IF throws
               THEN /\ log' = Append(log, CallRecord(o1, TRUE, <<>>))
                    /\ Propagate(renderError(render))
               ELSE /\ log' = Append(log, CallRecord(o1, FALSE, fragment))
                    /\ stack' = SetTop([Top EXCEPT !.resultString = Concat(Top.resultString, fragment),
                                                   !.cntr = Top.cntr + 1, !.at = "loop"])
                    /\ UNCHANGED <<pc, ret>>
   /\ UNCHANGED <<ctl, _transforms, _transformType, data, render, hist, query>>

\* line 73 at depth > 0: the result is appended to the caller's resultString (line 63)
ReturnTraversal ==
   /\ pc = "traversing" /\ Top.at = "loop" /\ Len(stack) > 1
   /\ Entries.kind \notin {"undefined", "null"}
   /\ ~InLoop(Top.cntr, Entries)
   /\ LET caller == stack[Len(stack) - 1]
      IN stack' = [SubSeq(stack, 1, Len(stack) - 1) EXCEPT ![Len(stack) - 1] =
                      [caller EXCEPT !.resultString = Concat(caller.resultString, Top.resultString),
                                     !.at = "close"]]
   /\ UNCHANGED <<ctl, _transforms, _transformType, pc, data, options, render, log, ret, hist, query>>

\* line 73 at depth 0, then transformCategories lines 23-26: clear the options and return the string
ReturnResult ==
   /\ pc = "traversing" /\ Top.at = "loop" /\ Len(stack) = 1
   /\ Entries.kind \notin {"undefined", "null"}
   /\ ~InLoop(Top.cntr, Entries)
   /\ options' = ClearState(options)
   /\ stack' = <<>>
   /\ pc' = "returned"
   /\ ret' = [ret EXCEPT !.value = Top.resultString]
   /\ UNCHANGED <<ctl, _transforms, _transformType, data, render, log, hist, query>>

---------------------------------------------------------------------------
(* Operations *)

\* nothing remembered; no query made
NoPrev == [set |-> FALSE, data |-> NoData, description |-> FALSE, arg |-> NoValue, type |-> NoValue,
           value |-> <<>>]
NoHist == [transforms |-> NoTransforms, prev |-> NoPrev, stale |-> FALSE]
NoQuery ==
   [state |-> "none", method |-> NoValue, options |-> Options(NoValue, FALSE), pipeFunction |-> NoValue,
    upstream |-> [state |-> "none", method |-> NoValue, args |-> <<>>, object |-> 0],
    piped |-> <<>>, error |-> "",
    value |-> [object |-> 0, normalized |-> NoData, transformed |-> <<NoValue>>]]

NoRet == Ret("none", NoValue, NoValue, NoValue, "none", FALSE, "", <<>>)
NoOptions == Options(NoValue, FALSE)

getTransformType == _transformType

\* new TransformControl(options)
constructor ==
   /\ ctl = "new" /\ pc = "idle"
   /\ pc' = "returned"
   /\ \E optType \in CtorTypes, user \in CtorTransforms :
      LET type == CtorType(optType)
          error == CtorError(type, user)
      IN IF error # ""
         THEN /\ ret' = Ret("constructor", optType, NoValue, type, "none", TRUE, error, <<>>)
              /\ hist' = [hist EXCEPT !.transforms = user]
              /\ UNCHANGED <<ctl, _transforms, _transformType>>
         ELSE /\ ret' = Ret("constructor", optType, NoValue, type, "none", FALSE, "", <<>>)
              /\ ctl' = "ready"
              /\ _transforms' = AddTransforms(BuiltinTransforms, user)
              /\ _transformType' = type
              /\ hist' = [hist EXCEPT !.transforms = user]
   /\ UNCHANGED <<data, options, render, stack, log, query>>

\* transformControl.setTransformType(transformType)
setTransformType ==
   /\ ctl = "ready" /\ pc = "idle"
   /\ pc' = "returned"
   /\ \E transformType \in TypeArgs :
      LET error == SetTypeError(_transforms, _transformType, transformType)
      IN IF error # ""
         THEN /\ ret' = Ret("setTransformType", transformType, _transformType, NoValue, "none", TRUE, error, <<>>)
              /\ UNCHANGED _transformType
         ELSE /\ ret' = Ret("setTransformType", transformType, _transformType, NoValue, "none", FALSE, "", <<>>)
              /\ _transformType' = transformType
   /\ UNCHANGED <<ctl, _transforms, data, options, render, stack, log, hist, query>>

\* the call this._transforms[transformType](data, options) and what the callee does first
Invoke(op, fn, d, o) ==
   LET called == Ret(op, o.transformType, _transformType, ResolveType(o.transformType, _transformType),
                     fn, FALSE, "", <<>>)
   IN CASE fn \in TraversingTransforms /\ d.categories = NoCategories ->
              \* transformCategories, line 13: undefined has no property `split`
              /\ ret' = [called EXCEPT !.threw = TRUE, !.error = "TypeError"]
              /\ pc' = "returned"
              /\ data' = d /\ options' = o
              /\ UNCHANGED <<render, stack, log>>
        [] fn \in TraversingTransforms ->
              /\ transformCategories(d, RenderOf(fn), o)
              /\ ret' = called
        [] fn = "transformJSON" ->
              /\ ret' = [called EXCEPT !.value = transformJSON(d)]
              /\ pc' = "returned"
              /\ data' = d /\ options' = o
              /\ UNCHANGED <<render, stack, log>>
        [] OTHER ->
              \* Object.prototype.toString.call(this._transforms, data, options)
              /\ ret' = [called EXCEPT !.value = <<"[object Object]">>]
              /\ pc' = "returned"
              /\ data' = d /\ options' = o
              /\ UNCHANGED <<render, stack, log>>

\* the body of TransformControl.transform (lines 123-145): validate, resolve the type, dispatch
Transform(d, o) ==
   LET error == TransformError(_transforms, _transformType, o.transformType)
       transformType == ResolveType(o.transformType, _transformType)
   IN IF error # ""
      THEN /\ ret' = Ret("transform", o.transformType, _transformType, transformType, "none",
                         TRUE, error, <<>>)
           /\ pc' = "returned"
           /\ data' = d /\ options' = o
           /\ UNCHANGED <<render, stack, log>>
      ELSE Invoke("transform", Lookup(_transforms, transformType), d, o)

\* transformControl.transform(data, options) with a new options object
transform ==
   /\ ctl = "ready" /\ pc = "idle"
   /\ \E d \in ControlData, o \in ControlOptionsSet : Transform(d, o)
   /\ UNCHANGED <<ctl, _transforms, _transformType, hist, query>>

\* transformControl.transform(data, options) by a caller that compares outputs
transformFresh ==
   /\ ctl = "ready" /\ pc = "idle"
   /\ \E d \in HistoryData, o \in HistoryOptionsSet : Transform(d, o)
   /\ hist' = [hist EXCEPT !.stale = FALSE]
   /\ UNCHANGED <<ctl, _transforms, _transformType, query>>

\* the caller of a transform call that returned or threw calls transform again with the same
\* data and the same options object, as the earlier call left it, after assigning
\* options.transformType
transformReusing ==
   /\ ctl = "ready" /\ pc = "returned" /\ ret.op = "transform"
   /\ \E t \in HistoryTypes : Transform(data, [options EXCEPT !.transformType = t])
   /\ hist' = [hist EXCEPT !.stale = options._transformData # Undefined]
   /\ UNCHANGED <<ctl, _transforms, _transformType, query>>

\* the caller keeps the output of a transform call to compare later outputs with it
Remember ==
   /\ pc = "returned" /\ ret.op = "transform" /\ ~ret.threw /\ ~hist.prev.set
   /\ hist' = [hist EXCEPT !.prev = [set |-> TRUE, data |-> data, description |-> options.description,
                                     arg |-> ret.arg, type |-> ret.type, value |-> ret.value]]
   /\ UNCHANGED <<ctl, _transforms, _transformType, pc, data, options, render, stack, log, ret, query>>

\* a transform module called on its own: transformHTML(data, options), ... or a user's transform
\* built on transformCategories
CallTransform ==
   /\ ctl = "new" /\ pc = "idle"
   /\ \E fn \in TraversingTransforms, d \in DataSet, o \in OptionsSet : Invoke("call", fn, d, o)
   /\ UNCHANGED <<ctl, _transforms, _transformType, hist, query>>

\* transformHTML(data, options), transformMarkdown(data, options) or transformText(data, options)
\* on data of every chain of RenderChains
CallRender ==
   /\ ctl = "new" /\ pc = "idle"
   /\ \E fn \in {"transformHTML", "transformMarkdown", "transformText"}, d \in RenderData, o \in OptionsSet :
         Invoke("call", fn, d, o)
   /\ UNCHANGED <<ctl, _transforms, _transformType, hist, query>>

\* transformJSON(data)
CallJSON ==
   /\ ctl = "new" /\ pc = "idle"
   /\ \E d \in JsonData, o \in OptionsSet : Invoke("call", "transformJSON", d, o)
   /\ UNCHANGED <<ctl, _transforms, _transformType, hist, query>>

\* a traversing transform called on data that may hold cycles
CallCyclic ==
   /\ ctl = "new" /\ pc = "idle"
   /\ \E fn \in TraversingTransforms, d \in TerminationData, o \in OptionsSet : Invoke("call", fn, d, o)
   /\ UNCHANGED <<ctl, _transforms, _transformType, hist, query>>

RECURSIVE WithoutDescriptions(_, _, _, _)
\* the value v under the category at index l of chain c, with the description of every entry
\* emptied except for the entries of the categories in `keep` and the entries below them
WithoutDescriptions(v, c, l, keep) ==
   IF ~IsArray(v) \/ c[l] \in keep THEN v
   ELSE Arr([i \in DOMAIN v.items |->
               [v.items[i] EXCEPT
                  !.description = "",
                  !.value = IF l < Len(c) THEN WithoutDescriptions(@, c, l + 1, keep) ELSE @]])

\* two data objects that differ at most in the descriptions of entries that are neither of a
\* category in `keep` nor below an entry of such a category
SameButDescriptions(d, e, keep) ==
   /\ d.categories = e.categories /\ d.field = e.field
   /\ WithoutDescriptions(d.value, Split(d.categories), 1, keep)
         = WithoutDescriptions(e.value, Split(e.categories), 1, keep)

\* transformHTML(data, options), transformMarkdown(data, options) or transformText(data, options)
\* with options.description true or false, by a caller that compares outputs
CallDescribed ==
   /\ ctl = "new" /\ pc = "idle" /\ ~hist.prev.set
   /\ \E fn \in {"transformHTML", "transformMarkdown", "transformText"}, d \in DescData, x \in BOOLEAN :
         Invoke("call", fn, d, Options(NoValue, x))
   /\ UNCHANGED <<ctl, _transforms, _transformType, hist, query>>

\* the caller keeps the output of that call
RememberOutput ==
   /\ pc = "returned" /\ ret.op = "call" /\ ~ret.threw /\ ~hist.prev.set
   /\ hist' = [hist EXCEPT !.prev = [set |-> TRUE, data |-> data, description |-> options.description,
                                     arg |-> NoValue, type |-> render, value |-> ret.value]]
   /\ UNCHANGED <<ctl, _transforms, _transformType, pc, data, options, render, stack, log, ret, query>>

\* the same transform with the same description option on data that differs from the data of the
\* remembered call in descriptions only
CallVariant ==
   /\ ctl = "new" /\ pc = "idle" /\ hist.prev.set
   /\ \E d \in {e \in DescData : SameButDescriptions(e, hist.prev.data, {})} :
         Invoke("call", BuiltinTransforms[hist.prev.type], d, Options(NoValue, hist.prev.description))
   /\ UNCHANGED <<ctl, _transforms, _transformType, hist, query>>

---------------------------------------------------------------------------
(* GitHubInspectOrgsTransform: the query methods *)

QueryMethods ==
   {"getCollaborators", "getContributors", "getMembers", "getOrgMembers", "getOrgRepos",
    "getOrgRepoCollaborators", "getOrgRepoContributors", "getOrgRepoStats", "getOrgTeams",
    "getOrgTeamMembers", "getOrgs", "getOwnerOrgs", "getOwnerRateLimits", "getOwners",
    "getUserFromCredential"}

\* the methods that call this._githubInspect.<method>() without arguments
OwnerMethods == {"getOwnerOrgs", "getOwnerRateLimits", "getOwners"}

\* options.pipeFunction of a query: absent, a function, or a truthy value that is no function
PipeFunctions == {NoValue, "function", NotAFunction}
QueryTypes == {NoValue, "bogus"}
\* data.normalized of the object the upstream promise resolves to
QueryData == HistoryData
\* the query data object that GitHubInspectOrgs creates for one query
UpstreamObject == 1

\* a wrapper that forwards nothing to the upstream method
UpstreamArgs_none(method, o) == <<>>

\* the argument list of this._githubInspect.<method>(...)
UpstreamArgs(method, o) == IF method \in OwnerMethods THEN <<>> ELSE <<o>>

\* a callback that pipes the result whether or not a pipeFunction was given
PipeCalls_always(pipeFunction, result) == <<result>>

\* if (options.pipeFunction) { options.pipeFunction.call(null, result); }
PipeCalls(pipeFunction, result) == IF pipeFunction # NoValue THEN <<result>> ELSE <<>>

\* githubInspectOrgsTransform.<method>(options): validation, defaults, the upstream call and .then
queryMethod ==
   /\ ctl = "ready" /\ pc = "idle" /\ query.state = "none"
   /\ \E method \in QueryMethods, pipeFunction \in PipeFunctions, t \in QueryTypes :
         LET o == Options(t, FALSE)
         IN IF pipeFunction = NotAFunction
            THEN /\ query' = [NoQuery EXCEPT !.state = "threw", !.method = method, !.options = o,
                                             !.pipeFunction = pipeFunction, !.error = "TypeError"]
                 /\ pc' = "returned"
            ELSE /\ query' = [NoQuery EXCEPT !.state = "pending", !.method = method, !.options = o,
                                             !.pipeFunction = pipeFunction,
                                             !.upstream = [state |-> "pending", method |-> method,
                                                           args |-> UpstreamArgs(method, o), object |-> 0]]
                 /\ pc' = pc
   /\ UNCHANGED <<ctl, _transforms, _transformType, data, options, render, stack, log, ret, hist>>

\* the promise of GitHubInspectOrgs rejects: the promise returned by .then rejects with its reason
upstreamRejects ==
   /\ query.state = "pending" /\ pc = "idle"
   /\ query' = [query EXCEPT !.state = "rejected", !.error = "upstream", !.upstream.state = "rejected"]
   /\ pc' = "returned"
   /\ UNCHANGED <<ctl, _transforms, _transformType, data, options, render, stack, log, ret, hist>>

\* the promise of GitHubInspectOrgs resolves with a query data object: the .then callback starts
\* with this._transformControl.transform(data.normalized, options)
upstreamResolves ==
   /\ query.state = "pending" /\ pc = "idle"
   /\ \E d \in QueryData :
         /\ Transform(d, query.options)
         /\ query' = [query EXCEPT !.state = "callback", !.upstream.state = "resolved",
                                   !.upstream.object = UpstreamObject,
                                   !.value = [object |-> UpstreamObject, normalized |-> d,
                                              transformed |-> <<NoValue>>]]
   /\ UNCHANGED <<ctl, _transforms, _transformType, hist>>

\* a callback that catches the exception of transform and goes on with an empty result
pipeResult_catching ==
   /\ query.state = "callback" /\ pc = "returned"
   /\ query' = [query EXCEPT !.piped = query.piped \o PipeCalls(query.pipeFunction, ret.value),
                             !.state = "piped"]
   /\ UNCHANGED <<ctl, _transforms, _transformType, pc, data, options, render, stack, log, ret, hist>>

\* transform has returned or thrown inside the callback: a throw rejects the promise, a result
\* is piped when a pipeFunction was given
pipeResult ==
   /\ query.state = "callback" /\ pc = "returned"
   /\ IF ret.threw
      THEN query' = [query EXCEPT !.state = "rejected", !.error = ret.error]
      ELSE \E pipeThrows \in (IF query.pipeFunction # NoValue THEN BOOLEAN ELSE {FALSE}) :
              query' = [query EXCEPT !.piped = query.piped \o PipeCalls(query.pipeFunction, ret.value),
                                     !.state = IF pipeThrows THEN "rejected" ELSE "piped",
                                     !.error = IF pipeThrows THEN "pipeFunction" ELSE ""]
   /\ UNCHANGED <<ctl, _transforms, _transformType, pc, data, options, render, stack, log, ret, hist>>

\* data.transformed = result; return data: the promise resolves with the query data object
resolveQuery ==
   /\ query.state = "piped" /\ pc = "returned"
   /\ query' = [query EXCEPT !.state = "resolved", !.value.transformed = ret.value]
   /\ UNCHANGED <<ctl, _transforms, _transformType, pc, data, options, render, stack, log, ret, hist>>

\* the caller takes the result (or catches the exception) and drops the objects of the call; a
\* query whose upstream promise is still pending stays
Continue ==
   /\ pc = "returned" /\ query.state \notin {"callback", "piped"}
   /\ pc' = "idle"
   /\ query' = IF query.state = "pending" THEN query ELSE NoQuery
   /\ data' = NoData
   /\ options' = NoOptions
   /\ render' = "none"
   /\ log' = <<>>
   /\ ret' = NoRet
   /\ hist' = [hist EXCEPT !.stale = FALSE]
   /\ UNCHANGED <<ctl, _transforms, _transformType, stack>>

Init ==
   /\ hist = NoHist
   /\ query = NoQuery
   /\ ctl = "new"
   /\ _transforms = NoTransforms
   /\ _transformType = NoValue
   /\ pc = "idle"
   /\ data = NoData
   /\ options = NoOptions
   /\ render = "none"
   /\ stack = <<>>
   /\ log = <<>>
   /\ ret = NoRet

\* a TransformControl instance and its callers
Next ==
   \/ constructor
   \/ setTransformType
   \/ transform
   \/ EntriesLengthThrows
   \/ FirstPass
   \/ Recurse
   \/ SecondPass
   \/ ReturnTraversal
   \/ ReturnResult
   \/ Continue

Spec == Init /\ [][Next]_vars

\* the traversing transforms called directly, over every data tree of the bounds
NextEngine ==
   \/ CallTransform
   \/ EntriesLengthThrows
   \/ FirstPass
   \/ Recurse
   \/ SecondPass
   \/ ReturnTraversal
   \/ ReturnResult
   \/ Continue

SpecEngine == Init /\ [][NextEngine]_vars

\* a GitHubInspectOrgsTransform instance: its TransformControl, its queries and their promises
NextQuery ==
   \/ constructor
   \/ setTransformType
   \/ queryMethod
   \/ upstreamRejects
   \/ upstreamResolves
   \/ pipeResult
   \/ resolveQuery
   \/ EntriesLengthThrows
   \/ FirstPass
   \/ Recurse
   \/ SecondPass
   \/ ReturnTraversal
   \/ ReturnResult
   \/ Continue

SpecQuery == Init /\ [][NextQuery]_vars

\* the json transform called directly
NextJSON ==
   \/ CallJSON
   \/ Continue

SpecJSON == Init /\ [][NextJSON]_vars

\* the built-in renderers on every chain of their category names
NextRender ==
   \/ CallRender
   \/ EntriesLengthThrows
   \/ FirstPass
   \/ Recurse
   \/ SecondPass
   \/ ReturnTraversal
   \/ ReturnResult
   \/ Continue

SpecRender == Init /\ [][NextRender]_vars

\* a TransformControl instance whose caller reuses options objects and compares outputs
NextHistory ==
   \/ constructor
   \/ setTransformType
   \/ transformFresh
   \/ transformReusing
   \/ Remember
   \/ EntriesLengthThrows
   \/ FirstPass
   \/ Recurse
   \/ SecondPass
   \/ ReturnTraversal
   \/ ReturnResult
   \/ Continue

SpecHistory == Init /\ [][NextHistory]_vars

\* the built-in renderers called twice on data that differs in descriptions
NextDescription ==
   \/ CallDescribed
   \/ RememberOutput
   \/ CallVariant
   \/ EntriesLengthThrows
   \/ FirstPass
   \/ Recurse
   \/ SecondPass
   \/ ReturnTraversal
   \/ ReturnResult
   \/ Continue

SpecDescription == Init /\ [][NextDescription]_vars

\* one step of s_DEPTH_TRAVERSAL: the code is synchronous and runs until it returns or throws
Traverse ==
   \/ EntriesLengthThrows
   \/ FirstPass
   \/ Recurse
   \/ SecondPass
   \/ ReturnTraversal
   \/ ReturnResult

\* the traversing transforms on cyclic data and on trees
NextTermination ==
   \/ CallCyclic
   \/ EntriesLengthThrows
   \/ FirstPass
   \/ Recurse
   \/ SecondPass
   \/ ReturnTraversal
   \/ ReturnResult
   \/ Continue

SpecTermination == Init /\ [][NextTermination]_vars /\ WF_vars(Traverse)

---------------------------------------------------------------------------
(* What the claims speak about, read off the data and the history *)

Chain == Split(data.categories)
\* the root's field named by the first category
Root == Get(data, Chain[1])

RECURSIVE NodeAt(_, _, _)
\* the node reached from `node` (at depth `depth`) by the indices of path p
NodeAt(node, depth, p) ==
   IF p = <<>> THEN node
   ELSE NodeAt(Get(node, Chain[depth + 1]).items[p[1]], depth + 1, Tail(p))

EntryAt(p) == NodeAt(data, 0, p)
Parent(p) == SubSeq(p, 1, Len(p) - 1)
\* the array that holds the entry at path p
ArrayOf(p) == Get(EntryAt(Parent(p)), Chain[Len(p)]).items

\* leaf in the words of the specification: last chain index, or no non-empty array under the next category
IsLeaf(p) ==
   \/ Len(p) = Len(Chain)
   \/ LET v == Get(EntryAt(p), Chain[Len(p) + 1])
      IN v.kind # "array" \/ v.items = <<>>

RECURSIVE PathsUnder(_)
\* the entries below the node at path p that a traversal visits
PathsUnder(p) ==
   LET v == Get(EntryAt(p), Chain[Len(p) + 1])
   IN UNION { {Append(p, i)} \cup (IF IsLeaf(Append(p, i)) THEN {} ELSE PathsUnder(Append(p, i))) :
                 i \in 1..Len(v.items) }

TraversedEntries == IF IsArray(Root) THEN PathsUnder(<<>>) ELSE {}

Calls(p, pass) == { i \in DOMAIN log : log[i].path = p /\ log[i].pass = pass }
First(p) == CHOOSE i \in Calls(p, 0) : TRUE
Second(p) == CHOOSE i \in Calls(p, 1) : TRUE
IsPrefix(p, q) == Len(p) < Len(q) /\ SubSeq(q, 1, Len(p)) = p

RECURSIVE Returned(_)
\* the return values of the render calls, concatenated in call order
Returned(l) == IF l = <<>> THEN <<>> ELSE l[1].returned \o Returned(Tail(l))

Completed == pc = "returned" /\ ret.invoked \in TraversingTransforms /\ ~ret.threw

---------------------------------------------------------------------------
(* Claims *)

\* C1: a completed traversal of a data tree has called the render callback exactly once with
\* pass 0 and exactly once with pass 1 for every traversed entry and for nothing else, so both
\* counts equal the number of traversed entries; an empty entry array gives no call and no output.
C1_PassBalance ==
   (Completed /\ IsArray(Root)) =>
      /\ \A p \in TraversedEntries : Cardinality(Calls(p, 0)) = 1 /\ Cardinality(Calls(p, 1)) = 1
      /\ \A i \in DOMAIN log : log[i].path \in TraversedEntries /\ log[i].pass \in {0, 1}
      /\ Cardinality({i \in DOMAIN log : log[i].pass = 0}) = Cardinality(TraversedEntries)
      /\ Cardinality({i \in DOMAIN log : log[i].pass = 1}) = Cardinality(TraversedEntries)
      /\ (Root.items = <<>> => log = <<>> /\ ret.value = <<>>)

C1_Witness ==
   /\ Completed /\ IsArray(Root)
   /\ Cardinality(TraversedEntries) = MaxEntries
   /\ \E p \in TraversedEntries : Len(p) = 2
   /\ Len(log) = 2 * MaxEntries

\* C2: at every render call the maxDepth flag is true iff the entry is at the last chain index or
\* its next-category field is absent, not an array or an empty array; calls at depth d+1 below an
\* entry exist in a completed traversal exactly when its flag was false.
C2_LeafCorrectness ==
   /\ \A i \in DOMAIN log : log[i].maxDepth <=> IsLeaf(log[i].path)
   /\ Completed =>
         \A i \in DOMAIN log :
            (\E j \in DOMAIN log : Len(log[j].path) = Len(log[i].path) + 1 /\ IsPrefix(log[i].path, log[j].path))
               <=> ~log[i].maxDepth

C2_Witness ==
   /\ Completed /\ Len(Chain) >= 2
   /\ \E i, j \in DOMAIN log :
         /\ log[i].depth = 0 /\ log[j].depth = 0
         /\ Get(EntryAt(log[i].path), Chain[2]) = Arr(<<>>) /\ log[i].maxDepth
         /\ ~log[j].maxDepth

\* C3: at every render call firstEntry is true exactly for index 0 of the entry's array and
\* lastEntry exactly for its last index; both are true for a single-entry array.
C3_SiblingPosition ==
   \A i \in DOMAIN log :
      LET p == log[i].path
      IN /\ log[i].firstEntry <=> p[Len(p)] = 1
         /\ log[i].lastEntry <=> p[Len(p)] = Len(ArrayOf(p))
         /\ Len(ArrayOf(p)) = 1 => log[i].firstEntry /\ log[i].lastEntry

C3_Witness ==
   /\ \E i \in DOMAIN log : log[i].firstEntry /\ log[i].lastEntry /\ log[i].depth = 1
   /\ \E i \in DOMAIN log : ~log[i].firstEntry /\ ~log[i].lastEntry

\* C4: the string returned is the concatenation of the callback's return values in call order, and
\* the calls are a depth-first open/close sequence: the pass-0 call of an entry comes before every
\* call for the entries below it, those before its pass-1 call, and the pass-0 call of its next
\* sibling follows its pass-1 call directly.
C4_VisitationOrder ==
   (Completed /\ IsArray(Root)) =>
      /\ ret.value = Returned(log)
      /\ \A p \in TraversedEntries :
            /\ First(p) < Second(p)
            /\ \A j \in DOMAIN log : IsPrefix(p, log[j].path) => First(p) < j /\ j < Second(p)
            /\ \A j \in DOMAIN log : First(p) < j /\ j < Second(p) => IsPrefix(p, log[j].path)
            /\ p[Len(p)] < Len(ArrayOf(p)) =>
                  First([p EXCEPT ![Len(p)] = p[Len(p)] + 1]) = Second(p) + 1
      /\ log # <<>> => log[1].path = <<1>> /\ log[1].pass = 0

C4_Witness ==
   /\ Completed /\ IsArray(Root) /\ render = "user"
   /\ \E p \in TraversedEntries : Len(p) = 2 /\ Len(ArrayOf(p)) = 2
   /\ Len(Root.items) = 2
   /\ Len(ret.value) = Len(log)

Registered == DOMAIN _transforms

\* C5: setTransformType(name) fails whenever name is not a registered transform type, whatever
\* the active type is.
C5_SetUnregisteredFails ==
   (pc = "returned" /\ ret.op = "setTransformType" /\ ret.arg \notin Registered) => ret.threw

\* C6: transform with options.transformType naming an unregistered type throws, invokes no
\* transform function and leaves getTransformType() as it was before the call.
C6_UnregisteredOverrideThrows ==
   (ret.op = "transform" /\ IsString(ret.arg) /\ ret.arg \notin Registered) =>
      /\ pc = "returned" /\ ret.threw
      /\ ret.invoked = "none" /\ log = <<>>
      /\ getTransformType = ret.before

\* C7: a transform call whose options.transformType names a registered type is dispatched to that
\* type's transform; a call without options.transformType resolves to the active type, the one set
\* last by the constructor or setTransformType, and is dispatched to its transform when it has one;
\* no transform call changes getTransformType().
C7_OneShotOverride ==
   ret.op = "transform" =>
      /\ getTransformType = ret.before
      /\ ret.arg \in Registered => ret.type = ret.arg /\ ret.invoked = _transforms[ret.arg]
      /\ ret.arg = NoValue =>
            /\ ret.type = ret.before
            /\ ret.before \in Registered => ret.invoked = _transforms[ret.before]

C7_Witness ==
   /\ pc = "returned" /\ ret.op = "transform" /\ ~ret.threw
   /\ ret.arg = "html" /\ ret.before = "custom" /\ ret.invoked = "transformHTML"
   /\ getTransformType = "custom" /\ log # <<>>

\* C8: construction sets the active type to options.transformType, or to 'text' when none is
\* given, fails when that name is not among the built-ins plus options.transforms, and after a
\* successful construction getTransformType() names a registered transform.
C8_ConstructionValidates ==
   (pc = "returned" /\ ret.op = "constructor") =>
      /\ ret.type = (IF IsString(ret.arg) THEN ret.arg ELSE "text")
      /\ ret.threw <=> ctl = "new"
      /\ ~ret.threw => getTransformType = ret.type /\ getTransformType \in Registered
      /\ ret.type \notin {"html", "json", "markdown", "text", "custom"} => ret.threw

\* C9: when the root's field named by the first category is not an array, a traversing transform
\* throws, returns no string and never invokes the render callback.
C9_InvalidRootFails ==
   (ret.invoked \in TraversingTransforms /\ ~IsArray(Root)) =>
      /\ log = <<>>
      /\ pc = "returned" => ret.threw /\ ret.value = <<>>

\* C10: when the render callback throws, that call is the last render call of the traversal, the
\* exception it threw reaches the caller of transform unchanged, and no result string is returned.
C10_FailFast ==
   \A i \in DOMAIN log :
      log[i].threw =>
         /\ i = Len(log)
         /\ pc = "returned" /\ stack = <<>>
         /\ ret.threw /\ ret.error = UserException
         /\ ret.value = <<>>

C10_Witness ==
   /\ ret.op = "transform" /\ ret.invoked = "userTransform"
   /\ Len(log) = 3 /\ log[3].threw /\ log[3].depth = 1 /\ log[3].pass = 1
   /\ log[1].depth = 0 /\ ~log[1].threw

Flags(r) == [firstEntry |-> r.firstEntry, lastEntry |-> r.lastEntry, maxDepth |-> r.maxDepth]

\* C19: every pass-1 render call follows a pass-0 call for the same entry and sees the same
\* firstEntry, lastEntry and maxDepth flags as that call did, also after the entry's subtree was
\* traversed in between, with only pass changed from 0 to 1; while the traversal runs, the state
\* record of the last render call still holds the flags and the pass the callback was called with
\* (the callback wrote none of them).
C19_FlagsStable ==
   /\ \A i \in DOMAIN log :
         log[i].pass = 1 =>
            \E j \in 1..(i - 1) :
               /\ log[j].path = log[i].path /\ log[j].pass = 0
               /\ log[j].category = log[i].category /\ log[j].depth = log[i].depth
               /\ Flags(log[j]) = Flags(log[i])
   /\ (pc = "traversing" /\ log # <<>>) =>
         LET last == log[Len(log)]
         IN /\ Flags(StateAt(options, last.depth)) = Flags(last)
            /\ StateAt(options, last.depth).pass = last.pass

C19_Witness ==
   /\ pc = "traversing" /\ render = "html"
   /\ \E i \in DOMAIN log :
         /\ log[i].pass = 1 /\ log[i].depth = 0 /\ ~log[i].maxDepth /\ ~log[i].lastEntry
         /\ log[i - 1].pass = 1 /\ log[i - 1].depth = 1 /\ log[i - 1].maxDepth /\ log[i - 1].lastEntry

\* C20: while a traversal runs, options._transformData is an array with exactly one state record
\* per category of the chain, options._maxDepthLength is the chain length, and the depth of every
\* activation of the traversal and of every render call lies in 0 .. chain length - 1, so the
\* record of that depth exists and has been written.
C20_StatePerDepth ==
   pc = "traversing" =>
      /\ IsArray(options._transformData)
      /\ Len(options._transformData.items) = Len(Chain)
      /\ options._maxDepthLength = Len(Chain)
      /\ \A k \in DOMAIN stack : stack[k].depth >= 0 /\ stack[k].depth < Len(Chain)
      /\ \A i \in DOMAIN log :
            /\ log[i].depth >= 0 /\ log[i].depth < Len(Chain)
            /\ log[i].length = Len(Chain)
            /\ log[i].depth + 1 \in DOMAIN options._transformData.items
            /\ StateAt(options, log[i].depth).set

C20_Witness ==
   /\ pc = "traversing" /\ Len(Chain) = MaxChain
   /\ log # <<>> /\ log[Len(log)].depth = Len(Chain) - 1
   /\ Len(options._transformData.items) = MaxChain

\* the options as left by the call hold no traversal state
Clean(o) == o._transformData = Undefined /\ o._maxDepthLength = -1

\* C11: whenever a transform call returns with the same data, the same resolved transform type and
\* the same description option as an earlier transform call of the same instance that returned,
\* its output is identical to that call's output, whatever setTransformType and transform calls
\* (returning or throwing) came in between and whether its options object is new or one that
\* earlier calls used.
C11_Deterministic ==
   (/\ pc = "returned" /\ ret.op = "transform" /\ ~ret.threw
    /\ hist.prev.set
    /\ data = hist.prev.data
    /\ ret.type = hist.prev.type
    /\ options.description = hist.prev.description) => ret.value = hist.prev.value

C11_Witness ==
   /\ pc = "returned" /\ ret.op = "transform" /\ ~ret.threw
   /\ hist.prev.set /\ hist.prev.arg = NoValue /\ hist.prev.type = "html"
   /\ ret.arg = "html" /\ _transformType = "custom"
   /\ data = hist.prev.data /\ options.description /\ hist.prev.description
   /\ Len(log) = 4 /\ ret.value = hist.prev.value /\ ret.value # <<>>

\* C12 as stated: after every normal return of a transform call the options hold no traversal
\* state, and no transform call changes the registry's transforms or its active type.
C12_AlwaysDiscarded ==
   (pc = "returned" /\ ret.op = "transform") =>
      /\ ~ret.threw => Clean(options)
      /\ _transformType = ret.before
      /\ _transforms = AddTransforms(BuiltinTransforms, hist.transforms)

\* C12, amended: a traversing transform (html, markdown, text, or a user transform built on
\* transformCategories) creates the per-depth state and the chain-length marker when it is called
\* and has set both to undefined when it returns normally; a transform that does not traverse
\* (json) leaves both as the options object held them at the call; no step of a transform call
\* changes the registry's transforms or its active type.
C12_StateLifecycle ==
   [][/\ ret'.op = "transform" => _transforms' = _transforms /\ _transformType' = _transformType
      /\ (pc # "traversing" /\ pc' = "traversing") =>
            /\ options'._transformData = NewTransformData(Split(data'.categories))
            /\ options'._maxDepthLength = Len(Split(data'.categories))
      /\ (pc' = "returned" /\ ret'.op = "transform" /\ ~ret'.threw
             /\ ret'.invoked \in TraversingTransforms) => Clean(options')
      /\ (pc # "traversing" /\ pc' = "returned" /\ ret'.op = "transform" /\ ret' # ret
             /\ ret'.invoked \notin TraversingTransforms) =>
            /\ options'._transformData = options._transformData
            /\ options'._maxDepthLength = options._maxDepthLength]_vars

C12_Witness ==
   /\ pc = "returned" /\ ret.op = "transform" /\ ~ret.threw
   /\ ret.invoked = "transformJSON" /\ ~Clean(options)

\* the names of options.transforms of the constructor call
Supplied == DOMAIN hist.transforms

\* C18: after a successful construction every name of options.transforms, a built-in name
\* included, is registered with the user's function; a transform call that resolves to such a name,
\* by the active type or by options.transformType, is dispatched to the user's function; a
\* construction with options.transformType naming a supplied function succeeds with that name as
\* active type, and so does setTransformType with such a name on an instance whose active type is
\* registered.
C18_UserTransformsRegistered ==
   /\ ctl = "ready" =>
         /\ \A n \in Supplied : n \in Registered /\ _transforms[n] = hist.transforms[n]
         /\ \A n \in Registered \ Supplied : _transforms[n] = BuiltinTransforms[n]
   /\ (ret.op = "transform" /\ ret.arg # NonString /\ ret.type \in Supplied) =>
         ret.invoked = hist.transforms[ret.type]
   /\ (pc = "returned" /\ ret.op = "constructor" /\ ret.type \in Supplied
          /\ \A n \in Supplied : hist.transforms[n] # NotAFunction) =>
         ~ret.threw /\ getTransformType = ret.type
   /\ (pc = "returned" /\ ret.op = "setTransformType" /\ ret.arg \in Supplied
          /\ ret.before \in Registered) =>
         ~ret.threw /\ getTransformType = ret.arg

C18_Witness ==
   /\ pc = "returned" /\ ret.op = "transform" /\ ~ret.threw
   /\ Supplied = {"text"} /\ ret.arg = NoValue /\ getTransformType = "text"
   /\ ret.invoked = "userTransform" /\ render = "user" /\ Len(log) = 4

\* the category names the html renderer has a case for (transformHTML.js, lines 99-140)
HandledCats == NameCats \cup {"orgs", "repos", "ratelimit", "teams", "stats"}
Handled == \A i \in DOMAIN Chain : Chain[i] \in HandledCats

UlOpen(c) == "<ul id=\"" \o c \o "\">"
IsUlOpen(t) == \E i \in DOMAIN Chain : t = UlOpen(Chain[i])
IsLiOpen(t) == t \in {"<li>", "<li class=\"li-depth-0\">"}

RECURSIVE Nested(_, _)
\* the list tags of the tokens ts close the open elements of `open` and their own in nested order
Nested(ts, open) ==
   IF ts = <<>> THEN open = <<>>
   ELSE LET t == Head(ts)
            top == IF open = <<>> THEN "" ELSE open[Len(open)]
            pop == SubSeq(open, 1, Len(open) - 1)
        IN CASE IsUlOpen(t) -> Nested(Tail(ts), Append(open, "ul"))
             [] IsLiOpen(t) -> Nested(Tail(ts), Append(open, "li"))
             [] t = "</ul>" -> top = "ul" /\ Nested(Tail(ts), pop)
             [] t = "</li>" -> top = "li" /\ Nested(Tail(ts), pop)
             [] OTHER -> Nested(Tail(ts), open)

\* the list tags of an html output, in order
ListTags(ts) == SelectSeq(ts, LAMBDA t : IsUlOpen(t) \/ IsLiOpen(t) \/ t \in {"</ul>", "</li>"})
Balanced(ts) == Nested(ListTags(ts), <<>>)

\* the traversed non-empty entry arrays, each named by the path of the entry that holds it
TraversedArrays == { Parent(p) : p \in TraversedEntries }

OneUlPerArray ==
   \A i \in DOMAIN Chain :
      Cardinality({k \in DOMAIN ret.value : ret.value[k] = UlOpen(Chain[i])})
         = Cardinality({q \in TraversedArrays : Chain[Len(q) + 1] = Chain[i]})

\* C13 as stated: for every chain of category names the html renderer handles and every data
\* tree, the <ul> and <li> tags of the html output are closed in properly nested order and exactly
\* one <ul id=category> is opened per traversed non-empty entry array.
C13_BalancedEveryChain ==
   (Completed /\ render = "html" /\ Handled) => Balanced(ret.value) /\ OneUlPerArray

\* C13, amended: the same for every chain of handled names and every data tree in which every
\* 'ratelimit' entry is a leaf (it has no non-empty array under the next category).
C13_BalancedNesting ==
   (Completed /\ render = "html" /\ Handled
      /\ \A i \in DOMAIN log : log[i].category = "ratelimit" => log[i].maxDepth) =>
         Balanced(ret.value) /\ OneUlPerArray

C13_Witness ==
   /\ Completed /\ render = "html" /\ Chain = <<"orgs", "ratelimit">>
   /\ Len(log) = 6 /\ log[2].category = "ratelimit" /\ log[4].category = "ratelimit"
   /\ Cardinality(TraversedArrays) = 2
   /\ Balanced(ret.value)

\* C14: every call of a built-in renderer (html, markdown, text) for a category name it has no
\* case for returns the empty string, on pass 0 and on pass 1, at every depth and whatever
\* firstEntry, lastEntry and maxDepth are, and does not throw.
C14_UnknownCategoryEmpty ==
   \A i \in DOMAIN log :
      (render \in {"html", "markdown", "text"} /\ log[i].category \notin HandledCats) =>
         ~log[i].threw /\ log[i].returned = <<>>

(* JSON.parse of a serialization, and structural equality of the decoded value with the data *)

Parsed(v, rest) == [v |-> v, rest |-> rest]
From(ts, i) == SubSeq(ts, i, Len(ts))
\* the index of the first token t of ts
IndexOf(ts, t) == CHOOSE i \in DOMAIN ts : ts[i] = t /\ \A j \in 1..(i - 1) : ts[j] # t

RECURSIVE parseValue(_)
RECURSIVE parseEntries(_, _)
RECURSIVE parseEntry(_)

parseValue(ts) ==
   CASE ts[1] = "null" -> Parsed(Null, Tail(ts))
     [] ts[1] = "{}" -> Parsed(PlainObject, Tail(ts))
     [] ts[1] = "0" -> Parsed(Number, Tail(ts))
     [] ts[1] = "\"" -> LET close == IndexOf(Tail(ts), "\"")
                        IN Parsed(Str(close - 1), From(ts, close + 2))
     [] OTHER -> parseEntries(Tail(ts), <<>>)

\* the elements of an array, after its opening bracket
parseEntries(ts, acc) ==
   IF ts[1] = "]" THEN Parsed(Arr(acc), Tail(ts))
   ELSE IF ts[1] = "," THEN parseEntries(Tail(ts), acc)
   ELSE LET e == parseEntry(ts) IN parseEntries(e.rest, Append(acc, e.v))

\* one entry object: name, url, description, then core and search, then one category field
parseEntry(ts) ==
   LET r1 == From(ts, 13)
       hasRate == r1[1] = "," /\ r1[2] = "core"
       r2 == IF hasRate THEN From(r1, 9) ELSE r1
       base == [name |-> ts[4], url |-> ts[8], description |-> ts[12],
                field |-> NoValue, value |-> Undefined, rate |-> hasRate]
   IN IF r2[1] = "}" THEN Parsed(base, Tail(r2))
      ELSE LET val == parseValue(From(r2, 4))
           IN Parsed([base EXCEPT !.field = r2[2], !.value = val.v], Tail(val.rest))

\* JSON.parse(text) of the serialization of a data object
JSONparse(ts) ==
   LET r0 == Tail(ts)
       hasCats == r0[1] = "categories"
       close == IndexOf(From(r0, 4), "\"")
       cats == IF hasCats THEN SubSeq(r0, 4, close + 2) ELSE NoCategories
       r1 == IF hasCats THEN From(r0, close + 4) ELSE r0
       r2 == IF r1[1] = "," THEN Tail(r1) ELSE r1
   IN IF r2[1] = "}" THEN [categories |-> cats, field |-> NoValue, value |-> Undefined]
      ELSE [categories |-> cats, field |-> r2[1], value |-> parseValue(From(r2, 3)).v]

\* every property name that a data node or an entry of the model can carry
PropertyNames == {Cats[i] : i \in DOMAIN Cats} \cup RenderCats

RECURSIVE SameValue(_, _)
\* field-for-field equality of two values
SameValue(v, w) ==
   /\ v.kind = w.kind
   /\ Len(v.items) = Len(w.items)
   /\ \A i \in DOMAIN v.items :
         LET a == v.items[i]
             b == w.items[i]
         IN /\ a.name = b.name /\ a.url = b.url /\ a.description = b.description /\ a.rate = b.rate
            /\ \A prop \in PropertyNames : SameValue(Get(a, prop), Get(b, prop))

SameData(d, e) ==
   /\ d.categories = e.categories
   /\ \A prop \in PropertyNames : SameValue(Get(d, prop), Get(e, prop))

\* C15: the json transform returns at once, without a traversal and without a render call, a
\* serialization of data that JSON.parse decodes to a value equal to data field for field,
\* whatever the category chain is (matching the data, not matching it, or absent), and the options
\* hold no traversal state afterwards.
C15_JsonRoundTrip ==
   ret.invoked = "transformJSON" =>
      /\ pc = "returned" /\ ~ret.threw
      /\ stack = <<>> /\ log = <<>> /\ render = "none"
      /\ Clean(options)
      /\ SameData(JSONparse(ret.value), data)

C15_Witness ==
   /\ ret.invoked = "transformJSON" /\ pc = "returned"
   /\ data.categories = NoCategories
   /\ IsArray(Get(data, "orgs")) /\ Len(Get(data, "orgs").items) = 2
   /\ \E i \in 1..2 : IsArray(Get(Get(data, "orgs").items[i], "repos"))
                          /\ Get(Get(data, "orgs").items[i], "repos").items # <<>>
   /\ JSONparse(ret.value).categories = NoCategories

\* C16: when the promise of a query method has resolved, the upstream promise had resolved before,
\* the value is the query data object of the upstream promise with the result of
\* transform(data.normalized, options) under `transformed`, and a pipeFunction that was supplied
\* has been invoked exactly once, with that result; a pipeFunction is invoked only after the
\* upstream promise resolved and transform returned, at most once, and never when none was
\* supplied; the result is piped before `transformed` is set and the promise resolves.
C16_QueryResolves ==
   /\ query.state \in {"callback", "piped", "resolved"} => query.upstream.state = "resolved"
   /\ query.state = "resolved" =>
         /\ ret.op = "transform" /\ ~ret.threw /\ pc = "returned"
         /\ query.value.object = query.upstream.object
         /\ query.value.normalized = data
         /\ query.value.transformed = ret.value
         /\ query.pipeFunction = "function" => query.piped = <<ret.value>>
   /\ query.pipeFunction # "function" => query.piped = <<>>
   /\ Len(query.piped) <= 1
   /\ query.piped # <<>> =>
         /\ query.upstream.state = "resolved" /\ ~ret.threw
         /\ query.piped = <<ret.value>>
   /\ query.state = "piped" =>
         /\ query.value.transformed = <<NoValue>>
         /\ query.pipeFunction = "function" => query.piped = <<ret.value>>

C16_Witness ==
   /\ query.state = "resolved" /\ query.method = "getOwnerOrgs"
   /\ query.pipeFunction = "function" /\ query.piped = <<ret.value>> /\ ret.value # <<>>
   /\ query.value.transformed = ret.value /\ Len(log) = 4

\* C17 as stated: every query method calls the GitHubInspectOrgs method of its own name with the
\* caller's options hash as argument.
C17_ForwardsOptions ==
   query.upstream.state # "none" =>
      /\ query.upstream.method = query.method
      /\ query.upstream.args = <<query.options>>

\* C17, amended: every query method calls the GitHubInspectOrgs method of its own name; it passes
\* the caller's options hash, except getOwnerOrgs, getOwnerRateLimits and getOwners, which call
\* the upstream method without arguments.
C17_ForwardsOptionsButOwners ==
   query.upstream.state # "none" =>
      /\ query.upstream.method = query.method
      /\ query.method \notin {"getOwnerOrgs", "getOwnerRateLimits", "getOwners"} =>
            query.upstream.args = <<query.options>>
      /\ query.method \in {"getOwnerOrgs", "getOwnerRateLimits", "getOwners"} =>
            query.upstream.args = <<>>

C17_Witness ==
   /\ query.state = "resolved" /\ query.method = "getCollaborators"
   /\ query.upstream.args = <<query.options>> /\ query.options.transformType = NoValue

\* C21: at every render call at depth d, the state record of every depth d' < d has pass = 0 and
\* maxDepth = false, and its firstEntry and lastEntry tell whether the ancestor of the current
\* entry at depth d' is the first and the last entry of its array.
C21_OpenAncestors ==
   (log # <<>> /\ (pc = "traversing" \/ log[Len(log)].threw)) =>
      LET last == log[Len(log)]
      IN \A k \in 0..(last.depth - 1) :
            LET anc == SubSeq(last.path, 1, k + 1)
            IN /\ StateAt(options, k).pass = 0
               /\ ~StateAt(options, k).maxDepth
               /\ StateAt(options, k).firstEntry <=> anc[k + 1] = 1
               /\ StateAt(options, k).lastEntry <=> anc[k + 1] = Len(ArrayOf(anc))

C21_Witness ==
   /\ pc = "traversing" /\ log # <<>>
   /\ log[Len(log)].depth = 2 /\ log[Len(log)].pass = 1
   /\ log[Len(log)].path[1] = 2 /\ Len(Root.items) = 2
   /\ ~StateAt(options, 0).firstEntry /\ StateAt(options, 0).lastEntry
   /\ StateAt(options, 1).pass = 0 /\ StateAt(options, 1).firstEntry

\* C22: no step of a transform call of type html, markdown or text changes the data tree (the
\* root node and every entry keep every field), and no step changes a field of options other than
\* _transformData and _maxDepthLength.
C22_Frame ==
   [][(pc = "traversing" /\ render \in {"html", "markdown", "text"}) =>
         /\ data' = data
         /\ DOMAIN options' = DOMAIN options
         /\ \A f \in DOMAIN options \ {"_transformData", "_maxDepthLength"} : options'[f] = options[f]]_vars

C22_Witness ==
   /\ Completed /\ render = "text" /\ Len(log) = 6
   /\ IsArray(Root) /\ Len(Root.items) = 2 /\ Len(Chain) = 2
   /\ options = Options(NoValue, FALSE)

\* C23: from every state reachable after a successful construction, setTransformType(t) with t
\* a registered transform type succeeds and getTransformType() returns t afterwards, whatever
\* setTransformType and transform calls came before.
C23_RegisteredAlwaysSettable ==
   (pc = "returned" /\ ret.op = "setTransformType" /\ ret.arg \in Registered) =>
      ~ret.threw /\ getTransformType = ret.arg

\* the render calls of the first pass, in call order
FirstPassCalls == SelectSeq(log, LAMBDA c : c.pass = 0)

\* C24: every pass-1 call of the text and of the markdown renderer returns the empty string and
\* does not throw, so the text or markdown output of a completed traversal is the concatenation
\* of the pass-0 fragments alone, in visitation order.
C24_SecondPassEmpty ==
   render \in {"text", "markdown"} =>
      /\ \A i \in DOMAIN log : log[i].pass = 1 => log[i].returned = <<>> /\ ~log[i].threw
      /\ Completed => ret.value = Returned(FirstPassCalls)

C24_Witness ==
   /\ Completed /\ render = "markdown" /\ Len(log) = 6 /\ Len(Chain) = 2
   /\ log[2].depth = 1 /\ log[3].pass = 1 /\ log[3].depth = 1
   /\ ret.value # <<>> /\ ret.value = log[1].returned \o log[2].returned \o log[5].returned

\* the number of line terminators of a fragment
NewlineCount(ts) == Len(SelectSeq(ts, LAMBDA t : t = "\n"))

\* no empty line: the text does not start with a newline and no newline follows a newline
NoBlankLine(ts) ==
   /\ ts # <<>> => ts[1] # "\n"
   /\ \A k \in 1..(Len(ts) - 1) : ~(ts[k] = "\n" /\ ts[k + 1] = "\n")

\* a traversal of a chain of one category never has a second activation and flags every entry a leaf
SingleDepth ==
   /\ Len(stack) <= 1
   /\ \A i \in DOMAIN log : log[i].depth = 0 /\ log[i].maxDepth

\* C25 as stated: for a chain of length 1 the engine never recurses and every entry is a leaf, and
\* the text renderer emits for each entry of every handled category exactly one line ended by a
\* single newline, with no blank line between or after entries.
C25_OneLinePerEntry ==
   (render = "text" /\ Len(Chain) = 1 /\ Handled) =>
      /\ SingleDepth
      /\ \A i \in DOMAIN log :
            (log[i].pass = 0 /\ ~log[i].threw) =>
               LET f == log[i].returned
               IN Len(f) >= 2 /\ f[Len(f)] = "\n" /\ NewlineCount(f) = 1
      /\ Completed => NoBlankLine(ret.value)

\* C25, amended: the same, except that an entry of category 'ratelimit' is emitted as two lines
\* (Core and Search), each ended by a single newline.
C25_SingleDepthLines ==
   (render = "text" /\ Len(Chain) = 1 /\ Handled) =>
      /\ SingleDepth
      /\ \A i \in DOMAIN log :
            (log[i].pass = 0 /\ ~log[i].threw) =>
               LET f == log[i].returned
               IN /\ Len(f) >= 2 /\ f[Len(f)] = "\n" /\ NoBlankLine(f)
                  /\ NewlineCount(f) = (IF log[i].category = "ratelimit" THEN 2 ELSE 1)
      /\ Completed => NoBlankLine(ret.value)

C25_Witness ==
   /\ Completed /\ render = "text" /\ Chain = <<"ratelimit">>
   /\ Len(log) = 4 /\ NewlineCount(ret.value) = 4
   /\ ret.value[Len(ret.value)] = "\n"

\* the <li> start tags of an html output, in order
LiTags(ts) == SelectSeq(ts, LAMBDA t : IsLiOpen(t))

\* C26: in the html output of a completed traversal the first <li> at depth 0, the one of the
\* first entry of the root array, carries the CSS class li-depth-0.
C26_FirstLiClass ==
   (Completed /\ render = "html" /\ log # <<>>) =>
      /\ LiTags(log[1].returned) # <<>>
      /\ LiTags(log[1].returned)[1] = "<li class=\"li-depth-0\">"

\* a call with options.description false has returned on data that differs from the data of the
\* remembered call, made with the same renderer and options.description false, at most in the
\* descriptions of entries that are neither of a category in `keep` nor below such an entry
GatedPair(keep) ==
   /\ pc = "returned" /\ ret.op = "call" /\ ~ret.threw
   /\ hist.prev.set /\ render = hist.prev.type
   /\ ~options.description /\ ~hist.prev.description
   /\ SameButDescriptions(data, hist.prev.data, keep)

\* C27 as stated: with options.description false or absent, the html, markdown and text outputs
\* for two data trees that differ only in the description values of entries are identical.
C27_DescriptionGated == GatedPair({}) => ret.value = hist.prev.value

\* C27, amended: with options.description false or absent, the html, markdown and text outputs
\* for two data trees that differ only in the description values of entries that are neither
\* 'stats' entries nor nested in a 'stats' entry are identical.
C27_DescriptionGatedButStats == GatedPair({"stats"}) => ret.value = hist.prev.value

C27_Witness ==
   /\ GatedPair({"stats"}) /\ render = "text" /\ Chain = <<"orgs", "teams">>
   /\ data # hist.prev.data /\ Len(log) = 4
   /\ Root.items[1].description = "about" /\ hist.prev.data.value.items[1].description = ""
   /\ ret.value = hist.prev.value /\ ret.value # <<>>

\* C28: every call of transformCategories returns or throws, on every data tree and chain and on
\* data in which an entry holds itself or an ancestor under a category field, and the number of
\* nested activations of the traversal never exceeds the chain length.
C28_Terminates ==
   /\ [](Len(stack) <= Len(Chain))
   /\ (pc = "traversing") ~> (pc = "returned")

C28_Witness ==
   /\ Completed /\ data.value = Ref(<<2>>) /\ Len(Chain) = MaxChain
   /\ \E i \in DOMAIN log : log[i].depth = MaxChain - 1 /\ log[i].maxDepth
   /\ \E i \in DOMAIN log : log[i].depth = 2 /\ EntryAt(log[i].path) = Heap[2]

\* C29: when the upstream promise of a query rejects, transform is not called, the promise of
\* the query rejects, no pipeFunction is invoked and the query data gets no `transformed` key;
\* when transform throws in the callback (an unregistered options.transformType, or a traversal
\* that throws), the promise rejects with that error, no pipeFunction is invoked and no
\* `transformed` key is set.
C29_FailurePaths ==
   /\ [](query.upstream.state = "rejected" =>
            /\ query.state = "rejected" /\ query.error = "upstream"
            /\ ret.op # "transform"
            /\ query.piped = <<>> /\ query.value.transformed = <<NoValue>>)
   /\ []((query.upstream.state = "resolved" /\ pc = "returned" /\ ret.threw) =>
            /\ query.state \in {"callback", "rejected"}
            /\ query.state = "rejected" => query.error = ret.error
            /\ query.piped = <<>> /\ query.value.transformed = <<NoValue>>)
   /\ [][(query.state = "callback" /\ pc = "returned" /\ ret.threw) => query'.state = "rejected"]_vars

C29_Witness ==
   /\ query.state = "rejected" /\ query.upstream.state = "resolved"
   /\ query.options.transformType = "bogus" /\ query.pipeFunction = "function"
   /\ ret.op = "transform" /\ ret.threw /\ ret.error = "Error" /\ ret.invoked = "none"
   /\ query.error = "Error" /\ query.piped = <<>>

\* C30: every call of a traversing transform starts its traversal with newly built per-depth
\* state, whatever the options object held (nothing, or the state an aborted call left behind);
\* the flags of every render call are those of the entry's place in the data; and the output of a
\* call that returns equals the output of an earlier call with the same data, transform type and
\* description option, whether the options object was new, used by a completed call, or left
\* populated by a call that a throwing render callback aborted.
C30_NoStaleState ==
   /\ [][(pc # "traversing" /\ pc' = "traversing") =>
            /\ options'._transformData = NewTransformData(Split(data'.categories))
            /\ options'._maxDepthLength = Len(Split(data'.categories))
            /\ stack' = <<Frame(data', 0)>> /\ log' = <<>>]_vars
   /\ [](\A i \in DOMAIN log :
            LET p == log[i].path
            IN /\ log[i].firstEntry <=> p[Len(p)] = 1
               /\ log[i].lastEntry <=> p[Len(p)] = Len(ArrayOf(p))
               /\ log[i].maxDepth <=> IsLeaf(p)
               /\ log[i].pass \in {0, 1} /\ log[i].length = Len(Chain))
   /\ []((/\ pc = "returned" /\ ret.op = "transform" /\ ~ret.threw
           /\ hist.prev.set /\ data = hist.prev.data /\ ret.type = hist.prev.type
           /\ options.description = hist.prev.description) => ret.value = hist.prev.value)

C30_Witness ==
   /\ pc = "returned" /\ ret.op = "transform" /\ ~ret.threw
   /\ hist.stale /\ hist.prev.set /\ data = hist.prev.data /\ ret.type = hist.prev.type
   /\ options.description = hist.prev.description
   /\ render = "html" /\ Len(log) = 4 /\ ret.value = hist.prev.value /\ ret.value # <<>>

====
